---- MODULE Spec2Model ----
(***************************************************************************)
(* A model of two pieces of cinder:                                        *)
(*   - CapacityFilter.host_passes (cinder/scheduler/filters/               *)
(*     capacity_filter.py), a pure decision function, and                  *)
(*   - PrimaryDataNfsDriver.create_volume_from_snapshot and its helpers    *)
(*     (cinder/volume/drivers/primarydata.py), a sequential workflow of    *)
(*     remote calls, with create_snapshot and delete_snapshot of the same  *)
(*     driver.                                                             *)
(* Python values are tagged records, so that None, the capacity sentinels  *)
(* and numbers can be told apart; the outcome of a call is either a        *)
(* returned value or a raised exception.                                   *)
(***************************************************************************)
EXTENDS Integers, Sequences, FiniteSets, TLC

(***************************************************************************)
(* Python values and call outcomes                                         *)
(***************************************************************************)
None == [t |-> "none"]
Num(n) == [t |-> "num", n |-> n]
Str(s) == [t |-> "str", s |-> s]
IsNum(v) == v.t = "num"

Return(v) == [kind |-> "return", value |-> v]
Raise(e) == [kind |-> "raise", exc |-> e]
NotCalled == [kind |-> "none"]

(***************************************************************************)
(* IEEE-754 binary64 arithmetic, as far as host_passes uses it.  A         *)
(* positive double is [mant, exp]: mant is its 53-bit significand, most    *)
(* significant bit first (always 1), and its value is mant * 2^exp.        *)
(* Zero is the record with the empty significand.                          *)
(***************************************************************************)
MantBits == 53

FloatZero == [mant |-> <<>>, exp |-> 0]

Zeros(n) == [i \in 1..n |-> 0]

RECURSIVE BitsToInt(_)
BitsToInt(bits) ==
    IF bits = <<>> THEN 0
    ELSE 2 * BitsToInt(SubSeq(bits, 1, Len(bits) - 1)) + bits[Len(bits)]

\* n in binary, without leading zeros
RECURSIVE IntToBits(_)
IntToBits(n) == IF n = 0 THEN <<>> ELSE Append(IntToBits(n \div 2), n % 2)

\* n < 2^k in binary, in k bits
FixedBits(n, k) == [i \in 1..k |-> (n \div 2^(k - i)) % 2]

\* bits + 1; the result is one bit longer when every bit was 1
IncBits(bits) ==
    LET n == Len(bits)
    IN IF \A i \in 1..n : bits[i] = 1 THEN <<1>> \o Zeros(n)
       ELSE LET z == CHOOSE k \in 1..n :
                         bits[k] = 0 /\ \A i \in (k + 1)..n : bits[i] = 1
            IN [i \in 1..n |-> IF i < z THEN bits[i]
                               ELSE IF i = z THEN 1 ELSE 0]

\* Round the exact value bits * 2^exp (plus a nonzero tail below the last
\* bit when sticky) to the nearest double, ties to even.  bits[1] = 1.
RoundNearestEven(bits, sticky, exp) ==
    LET n == Len(bits)
    IN IF n <= MantBits
       THEN [mant |-> bits \o Zeros(MantBits - n), exp |-> exp - (MantBits - n)]
       ELSE LET keep == SubSeq(bits, 1, MantBits)
                guard == bits[MantBits + 1]
                tail == sticky \/ \E i \in (MantBits + 2)..n : bits[i] = 1
                up == guard = 1 /\ (tail \/ keep[MantBits] = 1)
                r == IF up THEN IncBits(keep) ELSE keep
                drop == n - MantBits
            IN IF Len(r) > MantBits
               THEN [mant |-> SubSeq(r, 1, MantBits), exp |-> exp + drop + 1]
               ELSE [mant |-> r, exp |-> exp + drop]

\* The first n bits of the binary expansion of rem/den (rem < den), and
\* the remainder left after them: long division, eight bits at a step
RECURSIVE FracBits(_, _, _)
FracBits(rem, den, n) ==
    IF n = 0 THEN [bits |-> <<>>, rem |-> rem]
    ELSE LET k == IF n < 8 THEN n ELSE 8
             rest == FracBits((rem * 2^k) % den, den, n - k)
         IN [bits |-> FixedBits((rem * 2^k) \div den, k) \o rest.bits,
             rem |-> rest.rem]

\* The least s >= 0 with num * 2^s >= den
RECURSIVE NormShift(_, _)
NormShift(num, den) == IF num >= den THEN 0 ELSE 1 + NormShift(2 * num, den)

\* float(num) / den for integers 0 <= num <= den, den > 0: the correctly
\* rounded quotient
FloatDiv(num, den) ==
    IF num = 0 THEN FloatZero
    ELSE LET s == NormShift(num, den)
             f == FracBits(num * 2^s - den, den, MantBits)
         IN RoundNearestEven(<<1>> \o f.bits, f.rem # 0, (0 - MantBits) - s)

\* bits * t + carry for an integer t > 0, from the least significant bits
\* up, eight bits at a step
RECURSIVE MulBits(_, _, _)
MulBits(bits, t, carry) ==
    IF bits = <<>> THEN IntToBits(carry)
    ELSE LET n == Len(bits)
             k == IF n < 8 THEN n ELSE 8
             v == t * BitsToInt(SubSeq(bits, n - k + 1, n)) + carry
         IN MulBits(SubSeq(bits, 1, n - k), t, v \div 2^k)
                \o FixedBits(v % 2^k, k)

\* float(t) * f for an integer t > 0 that a double holds exactly: the
\* exact product t * mant * 2^exp, rounded
FloatMulInt(t, f) ==
    IF f = FloatZero THEN FloatZero
    ELSE RoundNearestEven(MulBits(f.mant, t, 0), FALSE, f.exp)

\* math.floor of a double f >= 0 (below 2^31)
FloatFloor(f) ==
    IF f = FloatZero \/ MantBits + f.exp <= 0 THEN 0
    ELSE BitsToInt(SubSeq(f.mant, 1, MantBits + f.exp))

(***************************************************************************)
(* CapacityFilter.host_passes                                              *)
(***************************************************************************)
\* Python 2 orders None below every number; Python 3 raises TypeError
PyVersions == {2, 3}

\* free >= volume_size, the comparison host_passes ends with (line 83
\* evaluates free < volume_size first, which raises in the same cases)
CompareFree(py, free, volume_size) ==
    IF IsNum(volume_size) THEN Return(free >= volume_size.n)
    ELSE IF py = 2 THEN Return(TRUE)
    ELSE Raise("TypeError")

(***************************************************************************)
(* The inputs host_passes is applied to.  Capacities are whole GB.         *)
(***************************************************************************)
TotalStep == 50
MaxTotalSteps == 2
FreeStep == 10
MaxFreeSteps == 11
MaxSize == 10

Percentages == 0..100
PositiveTotals == {1} \cup {k * TotalStep : k \in 1..MaxTotalSteps}
TotalValues == {-1, 0} \cup PositiveTotals
FreeValues == {k * FreeStep : k \in 0..MaxFreeSteps}
SizeValues == 1..MaxSize \cup {40, 41}
Sentinels == {Str("infinite"), Str("unknown")}
HostNames == {"host1", "host2"}

HostStates ==
    [host : {"host1"},
     free_capacity_gb : {None} \cup Sentinels \cup {Num(n) : n \in FreeValues},
     total_capacity_gb : {None} \cup Sentinels \cup {Num(n) : n \in TotalValues},
     reserved_percentage : Percentages]

FilterProperties ==
    [size : {None} \cup {Num(n) : n \in SizeValues},
     vol_exists_on : {None} \cup {Str(h) : h \in HostNames}]

\* math.floor(total * reserved), reserved = float(reserved_percentage) / 100,
\* tabulated over the positive totals and the percentages
ReservedFloorTable ==
    [total \in PositiveTotals |->
        [pct \in Percentages |->
            FloatFloor(FloatMulInt(total, FloatDiv(pct, 100)))]]

ReservedFloor(total, reserved_percentage) ==
    ReservedFloorTable[total][reserved_percentage]

\* numeric_check with the total compared by < 0 where the code has <= 0
numeric_check_zero_total(py, host_state, filter_properties) ==
    LET free_space == host_state.free_capacity_gb
        total_space == host_state.total_capacity_gb
    IN IF total_space = None THEN Raise("TypeError")
       ELSE IF total_space.n < 0 THEN Return(FALSE)
       ELSE CompareFree(py,
                free_space.n - (IF total_space.n = 0 THEN 0
                                ELSE ReservedFloor(total_space.n,
                                         host_state.reserved_percentage)),
                filter_properties.size)

\* lines 69-92: the total is a number (float(None) raises TypeError)
numeric_check(py, host_state, filter_properties) ==
    LET free_space == host_state.free_capacity_gb
        total_space == host_state.total_capacity_gb
    IN IF total_space = None THEN Raise("TypeError")
       ELSE IF total_space.n <= 0 THEN Return(FALSE)
       ELSE CompareFree(py,
                free_space.n - ReservedFloor(total_space.n,
                                             host_state.reserved_percentage),
                filter_properties.size)

\* known_free_check with the sentinel total tested before the sentinel
\* free capacity
known_free_check_total_first(py, host_state, filter_properties) ==
    LET free_space == host_state.free_capacity_gb
        total_space == host_state.total_capacity_gb
        reserved == FloatDiv(host_state.reserved_percentage, 100)
    IN IF total_space \in {Str("infinite"), Str("unknown")}
       THEN (IF reserved = FloatZero THEN Return(TRUE) ELSE Return(FALSE))
       ELSE IF free_space = Str("infinite") \/ free_space = Str("unknown")
       THEN Return(TRUE)
       ELSE numeric_check(py, host_state, filter_properties)

\* known_free_check admitting every host whose total is a sentinel
known_free_check_ignores_reserved(py, host_state, filter_properties) ==
    LET free_space == host_state.free_capacity_gb
        total_space == host_state.total_capacity_gb
    IN IF free_space = Str("infinite") \/ free_space = Str("unknown")
       THEN Return(TRUE)
       ELSE IF total_space \in {Str("infinite"), Str("unknown")}
       THEN Return(TRUE)
       ELSE numeric_check(py, host_state, filter_properties)

\* lines 48-68: the free capacity is set
known_free_check(py, host_state, filter_properties) ==
    LET free_space == host_state.free_capacity_gb
        total_space == host_state.total_capacity_gb
        reserved == FloatDiv(host_state.reserved_percentage, 100)
    IN IF free_space = Str("infinite") \/ free_space = Str("unknown")
       THEN Return(TRUE)
       ELSE IF total_space \in {Str("infinite"), Str("unknown")}
       THEN (IF reserved = FloatZero THEN Return(TRUE) ELSE Return(FALSE))
       ELSE numeric_check(py, host_state, filter_properties)

\* capacity_check without the fail-safe: an unset free capacity is taken
\* for one the back-end cannot report
capacity_check_no_fail_safe(py, host_state, filter_properties) ==
    IF host_state.free_capacity_gb = None THEN Return(TRUE)
    ELSE known_free_check(py, host_state, filter_properties)

\* lines 40-46: the volume is not on this host
capacity_check(py, host_state, filter_properties) ==
    IF host_state.free_capacity_gb = None THEN Return(FALSE)
    ELSE known_free_check(py, host_state, filter_properties)

\* host_passes without the exemption of the host the volume is on
host_passes_no_exemption(py, host_state, filter_properties) ==
    capacity_check(py, host_state, filter_properties)

host_passes(py, host_state, filter_properties) ==
    IF Str(host_state.host) = filter_properties.vol_exists_on
    THEN Return(TRUE)
    ELSE capacity_check(py, host_state, filter_properties)

(***************************************************************************)
(* Python strings and lists, as far as the driver uses them.  A string is  *)
(* a sequence of tokens; the separators ":" and "/" are tokens of their    *)
(* own, and so is the portal marker "data-portal".                         *)
(***************************************************************************)
\* s.rsplit(sep) without a limit: the pieces of s between the separators
RECURSIVE Split(_, _)
Split(s, sep) ==
    IF \A i \in 1..Len(s) : s[i] # sep THEN <<s>>
    ELSE LET i == CHOOSE k \in 1..Len(s) :
                      s[k] = sep /\ \A j \in 1..(k - 1) : s[j] # sep
         IN <<SubSeq(s, 1, i - 1)>> \o Split(SubSeq(s, i + 1, Len(s)), sep)

\* tok in s
Contains(s, tok) == \E i \in 1..Len(s) : s[i] = tok

\* l[k:]
SliceFrom(l, k) == SubSeq(l, k + 1, Len(l))

\* posixpath.join(a, b)
PathJoin2(a, b) ==
    IF b # <<>> /\ b[1] = "/" THEN b
    ELSE IF a = <<>> \/ a[Len(a)] = "/" THEN a \o b
    ELSE a \o <<"/">> \o b

\* os.path.join(a, *parts)
RECURSIVE PathJoin(_, _)
PathJoin(a, parts) ==
    IF parts = <<>> THEN a
    ELSE PathJoin(PathJoin2(a, parts[1]), SliceFrom(parts, 1))

(***************************************************************************)
(* PrimaryDataNfsDriver                                                    *)
(***************************************************************************)
DATASPHERE_PDFS_PATH == <<"/", "mnt", "/", "pdfs">>

\* 'volume-' + volume.id
VolumeFileName(id) == <<"volume-", id>>

\* ShareSegments taking a portal path for a plain one
ShareSegmentsStripsOne(share) == SliceFrom(Split(share, "/"), 1)

\* The list of path segments both create_snapshot and
\* create_volume_from_snapshot make of the share path
ShareSegments(share) ==
    IF Contains(share, "data-portal")
    THEN SliceFrom(Split(share, "/"), 3)
    ELSE SliceFrom(Split(share, "/"), 1)

BasePath(share) == PathJoin(DATASPHERE_PDFS_PATH, ShareSegments(share))

\* create_snapshot: the clone source and destination for a snapshot named
\* name of the volume volume_id at provider_location
SnapshotSrcPath(provider_location, volume_id) ==
    PathJoin2(BasePath(Split(provider_location, ":")[2]),
              VolumeFileName(volume_id))
\* SnapshotDstPath that names the snapshot's file after the source volume's
\* share path as it stands, the portal prefix kept
SnapshotDstPathRaw(provider_location, name) ==
    PathJoin2(PathJoin(DATASPHERE_PDFS_PATH,
                       SliceFrom(Split(Split(provider_location, ":")[2], "/"),
                                 1)),
              name)

SnapshotDstPath(provider_location, name) ==
    PathJoin2(BasePath(Split(provider_location, ":")[2]), name)

\* The volume type and QoS tables the driver reads through volume_types
\* and qos_specs: a volume type is None (no such type) or its
\* qos_specs_id; QoS specs are a dict
VolumeTypeTable ==
    [type_id \in {"type-missing", "type-noqos", "type-nokey", "type-gold",
                  "type-platinum"} |->
        CASE type_id = "type-missing" -> None
          [] type_id = "type-noqos" -> [t |-> "dict", qos_specs_id |-> None]
          [] type_id = "type-nokey" ->
                [t |-> "dict", qos_specs_id |-> Str("qos-nokey")]
          [] type_id = "type-gold" ->
                [t |-> "dict", qos_specs_id |-> Str("qos-gold")]
          [] type_id = "type-platinum" ->
                [t |-> "dict", qos_specs_id |-> Str("qos-platinum")]]

QosSpecsTable ==
    [qos_id \in {"qos-nokey", "qos-gold", "qos-platinum"} |->
        CASE qos_id = "qos-nokey" -> [consumer \in {"consumer"} |-> "back-end"]
          [] qos_id = "qos-gold" -> [k \in {"PD-objective"} |-> "gold"]
          [] qos_id = "qos-platinum" -> [k \in {"PD-objective"} |-> "platinum"]]

EmptyDict == [t |-> "dict", d |-> <<>>]
Dict(d) == [t |-> "dict", d |-> d]

\* _get_volume_qos_specs
_get_volume_qos_specs(vol) ==
    LET type_id == vol.volume_type_id
    IN IF type_id = None THEN EmptyDict
       ELSE LET volume_type == VolumeTypeTable[type_id.s]
            IN IF volume_type = None THEN EmptyDict
               ELSE LET qos_id == volume_type.qos_specs_id
                    IN IF qos_id = None THEN None
                       ELSE Dict(QosSpecsTable[qos_id.s])

\* qos_specs['PD-objective'], the argument of the call on line 155
ObjectiveNameOf(qos_specs) ==
    IF qos_specs = None THEN Raise("TypeError")
    ELSE IF "PD-objective" \in DOMAIN qos_specs.d
         THEN Return(qos_specs.d["PD-objective"])
         ELSE Raise("KeyError")

\* _get_objective_uuid returning the last entry of the name instead of the
\* first
_get_objective_uuid_last_match(objectives, name) ==
    LET matches == {i \in 1..Len(objectives) : objectives[i].name = name}
    IN IF matches = {} THEN None
       ELSE Str(objectives[CHOOSE i \in matches :
                               \A j \in matches : j <= i].uuid)

\* _get_objective_uuid: the scan of the catalog the backend listed
RECURSIVE _get_objective_uuid(_, _)
_get_objective_uuid(objectives, name) ==
    IF objectives = <<>> THEN None
    ELSE IF objectives[1].name = name THEN Str(objectives[1].uuid)
    ELSE _get_objective_uuid(SliceFrom(objectives, 1), name)

\* RemoteFSDriver.local_path: the volume's file as seen through the NFS
\* mount of its provider_location, named by the place of that file on
\* the storage fabric
local_path(vol) ==
    PathJoin2(BasePath(Split(vol.provider_location.s, ":")[2]),
              VolumeFileName(vol.id))

(***************************************************************************)
(* The inputs of create_volume_from_snapshot                               *)
(***************************************************************************)
MaxVolumeSize == 2

Requests == {1}

ProviderLocations ==
    {<<"nas", ":", "/", "share1">>,
     <<"nas", ":", "/", "mnt", "/", "data-portal", "/", "share1">>,
     <<"nas", ":", "/", "exports", "/", "share1">>,
     <<"nas", ":", "/", "mnt", "/", "data-portal">>}

Catalogs ==
    {<<>>,
     <<[name |-> "gold", uuid |-> "X"], [name |-> "silver", uuid |-> "Y"]>>,
     <<[name |-> "silver", uuid |-> "Y"], [name |-> "gold", uuid |-> "Z"],
       [name |-> "gold", uuid |-> "X"]>>}

VolumeTypeIds == {None} \cup {Str(id) : id \in DOMAIN VolumeTypeTable}

\* Volumes with one id for every request
VolumesSameId(r) ==
    [id : {"v1"},
     size : 1..MaxVolumeSize,
     volume_type_id : VolumeTypeIds,
     provider_location : {None}]

\* The new volume of request r, before the call
Volumes(r) ==
    [id : {IF r = 1 THEN "v1" ELSE "v2"},
     size : 1..MaxVolumeSize,
     volume_type_id : VolumeTypeIds,
     provider_location : {None}]

\* Snapshots of the volume v0
Snapshots ==
    [name : {<<"snapshot-s1">>},
     volume : [id : {"v0"},
               size : 1..MaxVolumeSize,
               provider_location : {Str(l) : l \in ProviderLocations}]]

\* The files on the fabric once create_snapshot has made the snapshots
\* snaps: each source volume's file and each snapshot's file
SnapshotFiles(snaps) ==
    LET src(sn) == SnapshotSrcPath(sn.volume.provider_location.s, sn.volume.id)
        dst(sn) == SnapshotDstPath(sn.volume.provider_location.s, sn.name)
        paths == {src(sn) : sn \in snaps} \cup {dst(sn) : sn \in snaps}
    IN [p \in paths |->
           (CHOOSE sn \in snaps : p \in {src(sn), dst(sn)}).volume.size]

\* The locals of a call; virt_sizes are the sizes qemu_img_info reported,
\* in order
NoFrame == [share |-> <<>>, objective_name |-> None, objective_uuid |-> None,
            dst_path |-> <<>>, virt_sizes |-> <<>>]

(***************************************************************************)
(* State                                                                   *)
(***************************************************************************)
VARIABLES
    host_state,         \* the HostCapacityState handed to host_passes
    filter_properties,  \* the request map handed to host_passes
    filter_result,      \* the outcome of the call, NotCalled before it
    pc,                 \* per request: the next step of the workflow
    volume,             \* per request: the VolumeRecord being created
    snapshot,           \* per request: the SnapshotRecord it is made from
    frame,              \* per request: the locals of the call
    result,             \* per request: the outcome of the call
    calls,              \* per request: the backend calls issued, in order
    files,              \* the fabric: path |-> virtual size in GB
    objectives          \* the objective catalog the backend lists

filter_vars == <<host_state, filter_properties, filter_result>>
workflow_vars == <<pc, volume, snapshot, frame, result, calls, files, objectives>>
vars == <<host_state, filter_properties, filter_result,
          pc, volume, snapshot, frame, result, calls, files, objectives>>

(***************************************************************************)
(* The scheduler calls host_passes once per (host, request) pair.          *)
(***************************************************************************)
\* No workflow runs
WorkflowIdle ==
    /\ pc = [r \in Requests |-> "idle"]
    /\ volume = [r \in Requests |-> None]
    /\ snapshot = [r \in Requests |-> None]
    /\ frame = [r \in Requests |-> NoFrame]
    /\ result = [r \in Requests |-> NotCalled]
    /\ calls = [r \in Requests |-> <<>>]
    /\ files = <<>>
    /\ objectives = <<>>

FilterInit ==
    /\ WorkflowIdle
    /\ filter_result = NotCalled
    /\ host_state \in HostStates
    /\ filter_properties \in FilterProperties

CallHostPasses ==
    /\ filter_result = NotCalled
    /\ \E py \in PyVersions :
         filter_result' = host_passes(py, host_state, filter_properties)
    /\ UNCHANGED <<host_state, filter_properties>>
    /\ UNCHANGED workflow_vars

FilterNext == CallHostPasses

FilterSpec == FilterInit /\ [][FilterNext]_vars

(***************************************************************************)
(* create_volume_from_snapshot, one step per remote call.  A remote call   *)
(* may fail, and its exception then ends the workflow.                     *)
(***************************************************************************)
Call(op, args) == [op |-> op, args |-> args]

\* The exception e leaves create_volume_from_snapshot
Fail(r, e) ==
    /\ result' = [result EXCEPT ![r] = Raise(e)]
    /\ pc' = [pc EXCEPT ![r] = "done"]

Goto(r, label) ==
    /\ pc' = [pc EXCEPT ![r] = label]
    /\ UNCHANGED result

Issue(r, op, args) == calls' = [calls EXCEPT ![r] = Append(@, Call(op, args))]

\* lines 151-153
Start(r) ==
    /\ pc[r] = "start"
    /\ LET src_provider == snapshot[r].volume.provider_location.s
           parts == Split(src_provider, ":")
       IN IF Len(parts) < 2
          THEN /\ Fail(r, "IndexError")
               /\ UNCHANGED <<volume, frame>>
          ELSE /\ frame' = [frame EXCEPT ![r].share = parts[2]]
               /\ volume' = [volume EXCEPT
                                ![r].provider_location = Str(src_provider)]
               /\ Goto(r, "qos")
    /\ UNCHANGED <<snapshot, calls, files, objectives>>
    /\ UNCHANGED filter_vars

\* line 154, and the subscript qos_specs['PD-objective'] of line 155; the
\* volume type and QoS lookups go to the database and may fail
GetVolumeQosSpecs(r) ==
    /\ pc[r] = "qos"
    /\ \/ /\ volume[r].volume_type_id # None
          /\ Fail(r, "VolumeTypeNotFound")
          /\ UNCHANGED frame
       \/ LET name == ObjectiveNameOf(_get_volume_qos_specs(volume[r]))
          IN IF name.kind = "raise"
             THEN /\ Fail(r, name.exc)
                  /\ UNCHANGED frame
             ELSE /\ frame' = [frame EXCEPT ![r].objective_name = Str(name.value)]
                  /\ Goto(r, "objective")
    /\ UNCHANGED <<volume, snapshot, calls, files, objectives>>
    /\ UNCHANGED filter_vars

\* the call of line 155 (the backend lists its objectives), then lines
\* 156-164
GetObjectiveUuid(r) ==
    /\ pc[r] = "objective"
    /\ Issue(r, "objectives_list", <<>>)
    /\ \/ /\ Fail(r, "ApiException")
          /\ UNCHANGED frame
       \/ /\ frame' = [frame EXCEPT
                ![r].objective_uuid =
                    _get_objective_uuid(objectives, frame[r].objective_name.s),
                ![r].share = ShareSegments(frame[r].share),
                ![r].dst_path =
                    PathJoin2(BasePath(frame[r].share),
                              VolumeFileName(volume[r].id))]
          /\ Goto(r, "clone")
    /\ UNCHANGED <<volume, snapshot, files, objectives>>
    /\ UNCHANGED filter_vars

\* line 163
src_path(r) ==
    PathJoin2(PathJoin(DATASPHERE_PDFS_PATH, frame[r].share), snapshot[r].name)

\* Clone with the failure of the backend call swallowed
CloneIgnoresFailure(r) ==
    /\ pc[r] = "clone"
    /\ Issue(r, "clone", <<src_path(r), frame[r].dst_path>>)
    /\ \/ /\ Goto(r, "chmod")
          /\ UNCHANGED files
       \/ /\ src_path(r) \in DOMAIN files
          /\ files' = [p \in DOMAIN files \cup {frame[r].dst_path} |->
                          IF p = frame[r].dst_path THEN files[src_path(r)]
                          ELSE files[p]]
          /\ Goto(r, "chmod")
    /\ UNCHANGED <<volume, snapshot, frame, objectives>>
    /\ UNCHANGED filter_vars

\* line 165: the backend copies the source file to the destination
Clone(r) ==
    /\ pc[r] = "clone"
    /\ Issue(r, "clone", <<src_path(r), frame[r].dst_path>>)
    /\ \/ /\ Fail(r, "ApiException")
          /\ UNCHANGED files
       \/ /\ src_path(r) \in DOMAIN files
          /\ files' = [p \in DOMAIN files \cup {frame[r].dst_path} |->
                          IF p = frame[r].dst_path THEN files[src_path(r)]
                          ELSE files[p]]
          /\ Goto(r, "chmod")
    /\ UNCHANGED <<volume, snapshot, frame, objectives>>
    /\ UNCHANGED filter_vars

\* Chmod left out: the workflow goes from the clone to the binding
ChmodSkipped(r) ==
    /\ pc[r] = "chmod"
    /\ Goto(r, "bind")
    /\ UNCHANGED <<volume, snapshot, frame, files, objectives, calls>>
    /\ UNCHANGED filter_vars

\* Chmod removing the cloned file when the permission fix fails
ChmodRollsBack(r) ==
    /\ pc[r] = "chmod"
    /\ Issue(r, "chmod", <<frame[r].dst_path>>)
    /\ \/ /\ Fail(r, "ProcessExecutionError")
          /\ files' = [p \in DOMAIN files \ {frame[r].dst_path} |-> files[p]]
       \/ /\ Goto(r, "bind")
          /\ UNCHANGED files
    /\ UNCHANGED <<volume, snapshot, frame, objectives>>
    /\ UNCHANGED filter_vars

\* line 167
Chmod(r) ==
    /\ pc[r] = "chmod"
    /\ Issue(r, "chmod", <<frame[r].dst_path>>)
    /\ \/ Fail(r, "ProcessExecutionError")
       \/ Goto(r, "bind")
    /\ UNCHANGED <<volume, snapshot, frame, files, objectives>>
    /\ UNCHANGED filter_vars

\* line 169: _set_objective(*share, file=..., objective_uuid=...) binds
\* its parameters first, and that fails unless share has one segment
SetObjective(r) ==
    /\ pc[r] = "bind"
    /\ IF Len(frame[r].share) # 1
       THEN /\ Fail(r, "TypeError")
            /\ UNCHANGED calls
       ELSE /\ Issue(r, "profile_set",
                     <<frame[r].share[1],
                       PathJoin2(<<"/">>, VolumeFileName(volume[r].id)),
                       frame[r].objective_uuid>>)
            /\ \/ Fail(r, "ApiException")
               \/ Goto(r, "rw")
    /\ UNCHANGED <<volume, snapshot, frame, files, objectives>>
    /\ UNCHANGED filter_vars

\* lines 171-173
SetRwPermissions(r) ==
    /\ pc[r] = "rw"
    /\ Issue(r, "set_rw_permissions", <<local_path(volume[r])>>)
    /\ \/ Fail(r, "ProcessExecutionError")
       \/ Goto(r, "check1")
    /\ UNCHANGED <<volume, snapshot, frame, files, objectives>>
    /\ UNCHANGED filter_vars

\* _is_file_size_equal given what qemu_img_info reports: virtual sizes
\* are whole multiples of units.Gi, kept here in GB
_is_file_size_equal(virt_size, size) == virt_size = size

\* the value create_volume_from_snapshot returns
ProviderLocationOf(r) ==
    Return([provider_location |-> snapshot[r].volume.provider_location.s])

\* line 174
CheckSize(r) ==
    /\ pc[r] = "check1"
    /\ Issue(r, "qemu_img_info", <<local_path(volume[r])>>)
    /\ \/ /\ Fail(r, "ProcessExecutionError")
          /\ UNCHANGED frame
       \/ /\ local_path(volume[r]) \in DOMAIN files
          /\ frame' = [frame EXCEPT
                ![r].virt_sizes = Append(@, files[local_path(volume[r])])]
          /\ IF _is_file_size_equal(files[local_path(volume[r])], volume[r].size)
             THEN /\ result' = [result EXCEPT ![r] = ProviderLocationOf(r)]
                  /\ pc' = [pc EXCEPT ![r] = "done"]
             ELSE Goto(r, "resize")
    /\ UNCHANGED <<volume, snapshot, files, objectives>>
    /\ UNCHANGED filter_vars

\* lines 177-179: qemu-img resize; a resize that reports success may
\* still have left the size as it was
Resize(r) ==
    /\ pc[r] = "resize"
    /\ Issue(r, "resize_image", <<local_path(volume[r]), volume[r].size>>)
    /\ \/ /\ Fail(r, "ProcessExecutionError")
          /\ UNCHANGED files
       \/ /\ local_path(volume[r]) \in DOMAIN files
          /\ \E new \in {volume[r].size, files[local_path(volume[r])]} :
                files' = [files EXCEPT ![local_path(volume[r])] = new]
          /\ Goto(r, "check2")
    /\ UNCHANGED <<volume, snapshot, frame, objectives>>
    /\ UNCHANGED filter_vars

\* RecheckSize resizing again when the size still differs
RecheckSizeLoops(r) ==
    /\ pc[r] = "check2"
    /\ Issue(r, "qemu_img_info", <<local_path(volume[r])>>)
    /\ \/ /\ Fail(r, "ProcessExecutionError")
          /\ UNCHANGED frame
       \/ /\ local_path(volume[r]) \in DOMAIN files
          /\ frame' = [frame EXCEPT
                ![r].virt_sizes = Append(@, files[local_path(volume[r])])]
          /\ IF _is_file_size_equal(files[local_path(volume[r])], volume[r].size)
             THEN /\ result' = [result EXCEPT ![r] = ProviderLocationOf(r)]
                  /\ pc' = [pc EXCEPT ![r] = "done"]
             ELSE Goto(r, "resize")
    /\ UNCHANGED <<volume, snapshot, files, objectives>>
    /\ UNCHANGED filter_vars

\* lines 180-184
RecheckSize(r) ==
    /\ pc[r] = "check2"
    /\ Issue(r, "qemu_img_info", <<local_path(volume[r])>>)
    /\ \/ /\ Fail(r, "ProcessExecutionError")
          /\ UNCHANGED frame
       \/ /\ local_path(volume[r]) \in DOMAIN files
          /\ frame' = [frame EXCEPT
                ![r].virt_sizes = Append(@, files[local_path(volume[r])])]
          /\ IF _is_file_size_equal(files[local_path(volume[r])], volume[r].size)
             THEN /\ result' = [result EXCEPT ![r] = ProviderLocationOf(r)]
                  /\ pc' = [pc EXCEPT ![r] = "done"]
             ELSE Fail(r, "InvalidResults")
    /\ UNCHANGED <<volume, snapshot, files, objectives>>
    /\ UNCHANGED filter_vars

\* No filter call is under way
FilterIdle ==
    /\ host_state = None
    /\ filter_properties = None
    /\ filter_result = NotCalled

Init ==
    /\ FilterIdle
    /\ pc = [r \in Requests |-> "start"]
    /\ volume \in [Requests -> UNION {Volumes(r) : r \in Requests}]
    /\ \A r \in Requests : volume[r] \in Volumes(r)
    /\ snapshot \in [Requests -> Snapshots]
    /\ frame = [r \in Requests |-> NoFrame]
    /\ result = [r \in Requests |-> NotCalled]
    /\ calls = [r \in Requests |-> <<>>]
    /\ files = SnapshotFiles({snapshot[r] : r \in Requests})
    /\ objectives \in Catalogs

\* create_volume_from_snapshot runs its steps in order, one request at a
\* time or several interleaved
Next ==
    \E r \in Requests :
        \/ Start(r)
        \/ GetVolumeQosSpecs(r)
        \/ GetObjectiveUuid(r)
        \/ Clone(r)
        \/ Chmod(r)
        \/ SetObjective(r)
        \/ SetRwPermissions(r)
        \/ CheckSize(r)
        \/ Resize(r)
        \/ RecheckSize(r)

Spec == Init /\ [][Next]_vars

(***************************************************************************)
(* Two calls of create_volume_from_snapshot for two new volumes, their     *)
(* steps interleaved in any order.  The driver holds no lock: the calls    *)
(* share the fabric and the objective catalog.  Both volumes have a type   *)
(* that names an objective, so that both calls reach the backend.          *)
(***************************************************************************)
ConcurrentRequests == {1, 2}

ConcurrentInit ==
    /\ FilterIdle
    /\ pc = [r \in ConcurrentRequests |-> "start"]
    /\ volume \in [ConcurrentRequests ->
                      UNION {Volumes(r) : r \in ConcurrentRequests}]
    /\ \A r \in ConcurrentRequests :
          /\ volume[r] \in Volumes(r)
          /\ volume[r].volume_type_id = Str("type-gold")
    /\ snapshot \in [ConcurrentRequests -> Snapshots]
    /\ \A r, q \in ConcurrentRequests :
          SnapshotDstPath(snapshot[r].volume.provider_location.s,
                          snapshot[r].name)
            = SnapshotDstPath(snapshot[q].volume.provider_location.s,
                              snapshot[q].name)
          => snapshot[r].volume.size = snapshot[q].volume.size
    /\ frame = [r \in ConcurrentRequests |-> NoFrame]
    /\ result = [r \in ConcurrentRequests |-> NotCalled]
    /\ calls = [r \in ConcurrentRequests |-> <<>>]
    /\ files = SnapshotFiles({snapshot[r] : r \in ConcurrentRequests})
    /\ objectives \in Catalogs

ConcurrentNext ==
    \E r \in ConcurrentRequests :
        \/ Start(r)
        \/ GetVolumeQosSpecs(r)
        \/ GetObjectiveUuid(r)
        \/ Clone(r)
        \/ Chmod(r)
        \/ SetObjective(r)
        \/ SetRwPermissions(r)
        \/ CheckSize(r)
        \/ Resize(r)
        \/ RecheckSize(r)

ConcurrentSpec == ConcurrentInit /\ [][ConcurrentNext]_vars

(***************************************************************************)
(* The life of a snapshot: create_snapshot makes its file from the file of *)
(* the source volume; the snapshot is then deleted (delete_snapshot) or a  *)
(* volume is created from it.  A snapshot whose creation failed can only   *)
(* be deleted.                                                             *)
(***************************************************************************)
\* The files on the fabric before create_snapshot: the files of the source
\* volumes of snaps
VolumeFiles(snaps) ==
    LET src(sn) == SnapshotSrcPath(sn.volume.provider_location.s, sn.volume.id)
    IN [p \in {src(sn) : sn \in snaps} |->
           (CHOOSE sn \in snaps : p = src(sn)).volume.size]

\* create_snapshot ended with the exception e
SnapshotFail(r, e) ==
    /\ result' = [result EXCEPT ![r] = Raise(e)]
    /\ pc' = [pc EXCEPT ![r] = "snap_failed"]

\* create_snapshot, lines 119-129
CreateSnapshotClone(r) ==
    /\ pc[r] = "snap_clone"
    /\ LET location == snapshot[r].volume.provider_location.s
           src == SnapshotSrcPath(location, snapshot[r].volume.id)
           dst == SnapshotDstPath(location, snapshot[r].name)
       IN /\ Issue(r, "clone", <<src, dst>>)
          /\ \/ /\ SnapshotFail(r, "ApiException")
                /\ UNCHANGED files
             \/ /\ src \in DOMAIN files
                /\ files' = [p \in DOMAIN files \cup {dst} |->
                                IF p = dst THEN files[src] ELSE files[p]]
                /\ Goto(r, "snap_chmod")
    /\ UNCHANGED <<volume, snapshot, frame, objectives>>
    /\ UNCHANGED filter_vars

\* create_snapshot, line 131; the snapshot is then available, and
\* create_volume_from_snapshot can start
CreateSnapshotChmod(r) ==
    /\ pc[r] = "snap_chmod"
    /\ Issue(r, "chmod",
             <<SnapshotDstPath(snapshot[r].volume.provider_location.s,
                               snapshot[r].name)>>)
    /\ \/ SnapshotFail(r, "ProcessExecutionError")
       \/ /\ result' = [result EXCEPT ![r] = Return(None)]
          /\ pc' = [pc EXCEPT ![r] = "start"]
    /\ UNCHANGED <<volume, snapshot, frame, files, objectives>>
    /\ UNCHANGED filter_vars

\* RemoteFSDriver._get_mount_point_for_share: the directory the share is
\* mounted on, named by its place on the storage fabric
_get_mount_point_for_share(nfs_share) == BasePath(Split(nfs_share, ":")[2])

\* _delete_file, lines 190-191
path(r) ==
    PathJoin2(_get_mount_point_for_share(snapshot[r].volume.provider_location.s),
              snapshot[r].name)

\* delete_snapshot returns, whatever happened in _delete_file (lines
\* 135-140)
DeleteSnapshotReturns(r) ==
    /\ result' = [result EXCEPT ![r] = Return(None)]
    /\ pc' = [pc EXCEPT ![r] = "deleted"]

\* delete_snapshot of an available or a failed snapshot, up to the volume
\* lookup of _delete_file (lines 187-188)
DeleteFileLookup(r) ==
    /\ pc[r] \in {"start", "snap_failed"}
    /\ Issue(r, "volume_get", <<snapshot[r].volume.id>>)
    /\ \/ DeleteSnapshotReturns(r)
       \/ /\ result' = [result EXCEPT ![r] = NotCalled]
          /\ pc' = [pc EXCEPT ![r] = "del_probe"]
    /\ UNCHANGED <<volume, snapshot, frame, files, objectives>>
    /\ UNCHANGED filter_vars

\* DeleteFileProbe going on to the delete whatever ls reports
DeleteFileProbeIgnored(r) ==
    /\ pc[r] = "del_probe"
    /\ Issue(r, "ls", <<path(r)>>)
    /\ Goto(r, "del_rm")
    /\ UNCHANGED <<volume, snapshot, frame, files, objectives>>
    /\ UNCHANGED filter_vars

\* _delete_file, lines 192-198: ls fails when the file is absent, and can
\* fail when it is present
DeleteFileProbe(r) ==
    /\ pc[r] = "del_probe"
    /\ Issue(r, "ls", <<path(r)>>)
    /\ \/ DeleteSnapshotReturns(r)
       \/ /\ path(r) \in DOMAIN files
          /\ Goto(r, "del_rm")
    /\ UNCHANGED <<volume, snapshot, frame, files, objectives>>
    /\ UNCHANGED filter_vars

\* _delete_file, line 199: RemoteFSDriver._delete removes the file, or
\* fails and leaves it
DeleteFileDelete(r) ==
    /\ pc[r] = "del_rm"
    /\ Issue(r, "delete", <<path(r)>>)
    /\ \/ UNCHANGED files
       \/ files' = [p \in DOMAIN files \ {path(r)} |-> files[p]]
    /\ DeleteSnapshotReturns(r)
    /\ UNCHANGED <<volume, snapshot, frame, objectives>>
    /\ UNCHANGED filter_vars

SnapshotInit ==
    /\ FilterIdle
    /\ pc = [r \in Requests |-> "snap_clone"]
    /\ volume \in [Requests -> UNION {Volumes(r) : r \in Requests}]
    /\ \A r \in Requests : volume[r] \in Volumes(r)
    /\ snapshot \in [Requests -> Snapshots]
    /\ frame = [r \in Requests |-> NoFrame]
    /\ result = [r \in Requests |-> NotCalled]
    /\ calls = [r \in Requests |-> <<>>]
    /\ files = VolumeFiles({snapshot[r] : r \in Requests})
    /\ objectives \in Catalogs

SnapshotNext ==
    \E r \in Requests :
        \/ CreateSnapshotClone(r)
        \/ CreateSnapshotChmod(r)
        \/ DeleteFileLookup(r)
        \/ DeleteFileProbe(r)
        \/ DeleteFileDelete(r)
        \/ Start(r)
        \/ GetVolumeQosSpecs(r)
        \/ GetObjectiveUuid(r)
        \/ Clone(r)
        \/ Chmod(r)
        \/ SetObjective(r)
        \/ SetRwPermissions(r)
        \/ CheckSize(r)
        \/ Resize(r)
        \/ RecheckSize(r)

SnapshotSpec == SnapshotInit /\ [][SnapshotNext]_vars

(***************************************************************************)
(* Claims about host_passes, checked under FilterSpec                      *)
(***************************************************************************)
Called == filter_result # NotCalled
OnExistingHost == filter_properties.vol_exists_on = Str(host_state.host)
FreeIsSentinel == host_state.free_capacity_gb \in Sentinels
TotalIsSentinel == host_state.total_capacity_gb \in Sentinels

\* C2: when the request's existing host is this host, host_passes returns
\* True whatever the capacities, the reserved percentage and the size are
C2_ExistingHostPasses ==
    (Called /\ OnExistingHost) => filter_result = Return(TRUE)

\* C2 witness: the call returned for the existing host although the free
\* capacity is unset and the total is 0
C2_Witness ==
    /\ Called
    /\ OnExistingHost
    /\ host_state.free_capacity_gb = None
    /\ host_state.total_capacity_gb = Num(0)
    /\ host_state.reserved_percentage = 100

\* C3 (as claimed): for another host with numeric free capacity and numeric
\* total > 0, host_passes returns True exactly when
\* free - floor(total * reserved_percentage / 100) >= size
C3_ExactReservedFloor ==
    (/\ Called
     /\ ~OnExistingHost
     /\ IsNum(host_state.free_capacity_gb)
     /\ IsNum(host_state.total_capacity_gb)
     /\ host_state.total_capacity_gb.n > 0
     /\ IsNum(filter_properties.size))
    => filter_result =
         Return(host_state.free_capacity_gb.n
                  - ((host_state.total_capacity_gb.n
                        * host_state.reserved_percentage) \div 100)
                >= filter_properties.size.n)

\* C4 (as claimed): every host whose total is a sentinel passes when the
\* reserved percentage is 0 and fails when it is above 0
C4_SentinelTotalAnyHost ==
    (Called /\ TotalIsSentinel)
    => filter_result = Return(host_state.reserved_percentage = 0)

\* C4 (amended): a host that is not the request's existing host, has a
\* numeric free capacity and a sentinel total passes when the reserved
\* percentage is 0 and fails when it is above 0
C4_SentinelTotal ==
    (/\ Called
     /\ ~OnExistingHost
     /\ IsNum(host_state.free_capacity_gb)
     /\ TotalIsSentinel)
    => filter_result = Return(host_state.reserved_percentage = 0)

\* C4 witness: such a host with a reserved percentage above 0 was refused
C4_Witness ==
    /\ Called
    /\ ~OnExistingHost
    /\ IsNum(host_state.free_capacity_gb)
    /\ host_state.total_capacity_gb = Str("infinite")
    /\ host_state.reserved_percentage = 1
    /\ filter_result = Return(FALSE)

\* C5 (as claimed): every host with a numeric total <= 0 fails any
\* positive requested size
C5_NonPositiveTotalAnyHost ==
    (/\ Called
     /\ IsNum(host_state.total_capacity_gb)
     /\ host_state.total_capacity_gb.n <= 0
     /\ IsNum(filter_properties.size)
     /\ filter_properties.size.n > 0)
    => filter_result = Return(FALSE)

\* C5 (amended): a host that is not the request's existing host, whose free
\* capacity is not a sentinel and whose numeric total is <= 0, fails any
\* positive requested size
C5_NonPositiveTotal ==
    (/\ Called
     /\ ~OnExistingHost
     /\ ~FreeIsSentinel
     /\ IsNum(host_state.total_capacity_gb)
     /\ host_state.total_capacity_gb.n <= 0
     /\ IsNum(filter_properties.size)
     /\ filter_properties.size.n > 0)
    => filter_result = Return(FALSE)

\* C5 witness: a host with total 0 and free capacity for the request was
\* refused
C5_Witness ==
    /\ Called
    /\ ~OnExistingHost
    /\ host_state.total_capacity_gb = Num(0)
    /\ IsNum(host_state.free_capacity_gb)
    /\ IsNum(filter_properties.size)
    /\ host_state.free_capacity_gb.n > filter_properties.size.n
    /\ host_state.reserved_percentage = 0
    /\ filter_result = Return(FALSE)

\* C6: a host whose free capacity is the sentinel 'unknown' or 'infinite'
\* passes, whatever the total, the reserved percentage and the size are
C6_SentinelFreePasses ==
    (Called /\ FreeIsSentinel) => filter_result = Return(TRUE)

\* C6 witness: a host with unknown free capacity passed although its total
\* is a sentinel too and its reserved percentage is above 0
C6_Witness ==
    /\ Called
    /\ ~OnExistingHost
    /\ host_state.free_capacity_gb = Str("unknown")
    /\ host_state.total_capacity_gb = Str("infinite")
    /\ host_state.reserved_percentage > 0
    /\ filter_result = Return(TRUE)

\* C7: a host that is not the request's existing host and whose free
\* capacity is unset is refused, by a returned False and not by an
\* exception, whatever the total, the reserved percentage and the size are
C7_UnsetFreeFails ==
    (Called /\ ~OnExistingHost /\ host_state.free_capacity_gb = None)
    => filter_result = Return(FALSE)

\* C7 witness: a host with no free capacity, no total and a request with
\* no size was refused
C7_Witness ==
    /\ Called
    /\ ~OnExistingHost
    /\ host_state.free_capacity_gb = None
    /\ host_state.total_capacity_gb = None
    /\ filter_properties.size = None
    /\ filter_result = Return(FALSE)

\* C8 (as claimed, for the requests that carry a size): every call of
\* host_passes ends by returning and never by raising
C8_NeverRaises ==
    (Called /\ IsNum(filter_properties.size)) => filter_result.kind = "return"

(***************************************************************************)
(* Claims about create_volume_from_snapshot, checked under Spec            *)
(***************************************************************************)
NumCalls(r, op) == Cardinality({i \in 1..Len(calls[r]) : calls[r][i].op = op})

OpsOf(cs) == [i \in 1..Len(cs) |-> cs[i].op]

\* The size queries and resizes of request r, in order
SizeOps(r) ==
    OpsOf(SelectSeq(calls[r],
                    LAMBDA c : c.op \in {"qemu_img_info", "resize_image"}))

LastCall(r) == calls[r][Len(calls[r])]

\* The source provider location, returned
SourceLocation(r) ==
    Return([provider_location |-> snapshot[r].volume.provider_location.s])

CloneSucceeded(r) == frame[r].dst_path \in DOMAIN files

\* C1 (as claimed): a first size query equal to volume.size ends the call
\* with the source provider location and no resize; a different one is
\* followed by exactly one resize and exactly one re-check, which decides
\* between the source provider location and InvalidResults; never two
\* resizes, never more than two size queries
C1_OneResizeOneRecheck ==
    \A r \in Requests :
        LET sizes == frame[r].virt_sizes
        IN /\ NumCalls(r, "resize_image") <= 1
           /\ NumCalls(r, "qemu_img_info") <= 2
           /\ (pc[r] = "done" /\ sizes # <<>>) =>
                IF sizes[1] = volume[r].size
                THEN /\ result[r] = SourceLocation(r)
                     /\ SizeOps(r) = <<"qemu_img_info">>
                ELSE /\ SizeOps(r) =
                          <<"qemu_img_info", "resize_image", "qemu_img_info">>
                     /\ Len(sizes) = 2
                     /\ result[r] = IF sizes[2] = volume[r].size
                                    THEN SourceLocation(r)
                                    ELSE Raise("InvalidResults")

\* C1 (amended): as claimed, except that a resize call that fails ends the
\* call with its error and no re-check, and a re-check whose query fails
\* ends the call with that error
C1_AtMostOneResize ==
    \A r \in Requests :
        LET sizes == frame[r].virt_sizes
        IN /\ NumCalls(r, "resize_image") <= 1
           /\ NumCalls(r, "qemu_img_info") <= 2
           /\ (pc[r] = "done" /\ sizes # <<>>) =>
                IF sizes[1] = volume[r].size
                THEN /\ result[r] = SourceLocation(r)
                     /\ SizeOps(r) = <<"qemu_img_info">>
                ELSE \/ /\ SizeOps(r) = <<"qemu_img_info", "resize_image">>
                        /\ result[r] = Raise("ProcessExecutionError")
                     \/ /\ SizeOps(r) =
                             <<"qemu_img_info", "resize_image", "qemu_img_info">>
                        /\ Len(sizes) = 1
                        /\ result[r] = Raise("ProcessExecutionError")
                     \/ /\ SizeOps(r) =
                             <<"qemu_img_info", "resize_image", "qemu_img_info">>
                        /\ Len(sizes) = 2
                        /\ result[r] = IF sizes[2] = volume[r].size
                                       THEN SourceLocation(r)
                                       ELSE Raise("InvalidResults")

\* C1 witness: the first query differed, one resize and one re-check were
\* issued, and the re-check still differed
C1_Witness ==
    \E r \in Requests :
        /\ pc[r] = "done"
        /\ Len(frame[r].virt_sizes) = 2
        /\ frame[r].virt_sizes[1] # volume[r].size
        /\ frame[r].virt_sizes[2] # volume[r].size
        /\ NumCalls(r, "resize_image") = 1
        /\ result[r] = Raise("InvalidResults")

\* No objective identifier can be resolved for the volume of request r
NoObjectiveResolvable(r) ==
    LET name == ObjectiveNameOf(_get_volume_qos_specs(volume[r]))
    IN \/ name.kind = "raise"
       \/ _get_objective_uuid(objectives, name.value) = None

\* A lookup itself failed: the database, or the listing of the objectives
LookupFailed(r) ==
    \/ result[r] = Raise("VolumeTypeNotFound")
    \/ /\ result[r] = Raise("ApiException")
       /\ LastCall(r).op = "objectives_list"

\* C9 (as claimed): when no objective identifier can be resolved the call
\* does not abort: it ends having issued the clone, the permission fix
\* after a successful clone, and no binding
C9_NoObjectiveStillClones ==
    \A r \in Requests :
        (pc[r] = "done" /\ NoObjectiveResolvable(r) /\ ~LookupFailed(r))
        => /\ NumCalls(r, "clone") = 1
           /\ CloneSucceeded(r) => NumCalls(r, "chmod") = 1
           /\ NumCalls(r, "profile_set") = 0

\* C10: the backend clone is called at most once per call, and when it
\* fails the call ends there with the clone's error: no later call is
\* issued
C10_CloneFailurePropagates ==
    \A r \in Requests :
        /\ NumCalls(r, "clone") <= 1
        /\ (NumCalls(r, "clone") = 1 /\ ~CloneSucceeded(r))
           => /\ pc[r] = "done"
              /\ result[r] = Raise("ApiException")
              /\ LastCall(r).op = "clone"

\* C10 witness: the clone was called and failed
C10_Witness ==
    \E r \in Requests :
        /\ NumCalls(r, "clone") = 1
        /\ ~CloneSucceeded(r)
        /\ result[r] = Raise("ApiException")

(***************************************************************************)
(* Claims about the steps of create_volume_from_snapshot                   *)
(***************************************************************************)
\* The call op of request r was issued and returned without an error;
\* err is the error a failure of that call ends the workflow with
CallReturned(r, op, err) ==
    /\ NumCalls(r, op) >= 1
    /\ ~(result[r] = Raise(err) /\ LastCall(r).op = op)

ListingReturned(r) == CallReturned(r, "objectives_list", "ApiException")
CloneReturned(r) == CallReturned(r, "clone", "ApiException")
ChmodReturned(r) == CallReturned(r, "chmod", "ProcessExecutionError")

\* The places of the catalog entries named name
Matches(name) == {i \in 1..Len(objectives) : objectives[i].name = name}

\* C11: over any catalog, empty ones and ones with several entries of one
\* name included, the objective lookup gives the identifier of the first
\* entry in catalog order whose name equals the policy name, gives None
\* (not found) when no entry has that name, and never gives the identifier
\* of an entry of another name
C11_FirstMatchInCatalogOrder ==
    \A r \in Requests :
        ListingReturned(r) =>
            LET name == frame[r].objective_name.s
                uuid == frame[r].objective_uuid
            IN /\ Matches(name) = {} => uuid = None
               /\ Matches(name) # {} =>
                     \E i \in Matches(name) :
                         /\ \A j \in Matches(name) : i <= j
                         /\ uuid = Str(objectives[i].uuid)
               /\ \A i \in 1..Len(objectives) :
                     objectives[i].name # name => uuid # Str(objectives[i].uuid)

\* C11 witness: the catalog lists 'gold' twice, after an entry of another
\* name, and the lookup of 'gold' gave the identifier of the first of the
\* two
C11_Witness ==
    \E r \in Requests :
        /\ ListingReturned(r)
        /\ frame[r].objective_name = Str("gold")
        /\ Cardinality(Matches("gold")) = 2
        /\ 1 \notin Matches("gold")
        /\ frame[r].objective_uuid = Str("Z")

\* The profile_set calls of request r
BindCalls(r) == SelectSeq(calls[r], LAMBDA c : c.op = "profile_set")

\* C13 (as claimed): in every run profile_set is called if and only if
\* the QoS step resolved an objective identifier and the clone and the
\* chmod succeeded; it is never called with None as the objective
\* identifier, and it is called at most once
C13_BindIffResolved ==
    \A r \in Requests :
        /\ Len(BindCalls(r)) <= 1
        /\ \A i \in 1..Len(BindCalls(r)) : BindCalls(r)[i].args[3] # None
        /\ pc[r] = "done" =>
              (Len(BindCalls(r)) = 1
               <=> /\ ListingReturned(r)
                   /\ frame[r].objective_uuid # None
                   /\ CloneReturned(r)
                   /\ ChmodReturned(r))

\* s is a prefix of t
IsPrefix(s, t) == Len(s) <= Len(t) /\ s = SubSeq(t, 1, Len(s))

\* The calls of a complete run, in order; set_rw_permissions is a second
\* permission-set on the cloned file, made before its size is read
WorkflowOrder ==
    <<"objectives_list", "clone", "chmod", "profile_set",
      "set_rw_permissions", "qemu_img_info", "resize_image", "qemu_img_info">>

\* C14: in every run the calls made are an initial part of: objective
\* listing, clone, chmod of the cloned file, bind, size query, resize, size
\* re-query; a bind, size query or resize is made only after the clone
\* succeeded; and a run that returns has made, after its clone, a chmod of
\* the file the clone wrote
C14_FixedCallOrder ==
    \A r \in Requests :
        /\ IsPrefix(OpsOf(calls[r]), WorkflowOrder)
        /\ IsPrefix(OpsOf(SelectSeq(calls[r],
                                   LAMBDA c : c.op # "set_rw_permissions")),
                    <<"objectives_list", "clone", "chmod", "profile_set",
                      "qemu_img_info", "resize_image", "qemu_img_info">>)
        /\ \A i \in 1..Len(calls[r]) :
              calls[r][i].op \in {"profile_set", "qemu_img_info", "resize_image"}
              => /\ \E j \in 1..(i - 1) : calls[r][j].op = "clone"
                 /\ CloneReturned(r)
                 /\ frame[r].dst_path \in DOMAIN files
        /\ (pc[r] = "done" /\ result[r].kind = "return")
           => \E j, k \in 1..Len(calls[r]) :
                  /\ j < k
                  /\ calls[r][j].op = "clone"
                  /\ calls[r][k] = Call("chmod", <<calls[r][j].args[2]>>)

\* C14 witness: a run that made every call of the order, the resize
\* included, and returned
C14_Witness ==
    \E r \in Requests :
        /\ pc[r] = "done"
        /\ result[r].kind = "return"
        /\ OpsOf(calls[r]) = WorkflowOrder

\* C15: create_volume_from_snapshot never issues a delete, and once its
\* clone call has succeeded the file volume-<volume.id> the clone wrote
\* stays on the fabric, up to and including the end of the run, whether
\* the run returns or fails at the chmod, the bind, the resize or a size
\* check
C15_NoRollback ==
    \A r \in Requests :
        /\ NumCalls(r, "delete") = 0
        /\ CloneReturned(r) =>
              /\ frame[r].dst_path \in DOMAIN files
              /\ frame[r].dst_path =
                    PathJoin2(BasePath(Split(SourceLocation(r).value
                                                 .provider_location, ":")[2]),
                              <<"volume-", volume[r].id>>)

\* C15 witness: the clone succeeded, the chmod after it failed and ended
\* the run, and the cloned file is still there
C15_Witness ==
    \E r \in Requests :
        /\ pc[r] = "done"
        /\ CloneReturned(r)
        /\ result[r] = Raise("ProcessExecutionError")
        /\ LastCall(r).op = "chmod"
        /\ frame[r].dst_path \in DOMAIN files

\* The share path of the source provider location '<host>:<sharePath>'
SharePath(r) ==
    LET location == snapshot[r].volume.provider_location.s
        colon == CHOOSE i \in 1..Len(location) : location[i] = ":"
    IN SubSeq(location, colon + 1, Len(location))

HasPortalMarker(share_path) ==
    \E i \in 1..Len(share_path) : share_path[i] = "data-portal"

\* /mnt/pdfs/<segment>/.../<segment>/<name>
FileUnder(segments, name) ==
    LET under[k \in 0..Len(segments)] ==
            IF k = 0 THEN <<"/", "mnt", "/", "pdfs">>
            ELSE under[k - 1] \o <<"/">> \o segments[k]
    IN under[Len(segments)] \o <<"/">> \o name

\* C17: the normalized share is what follows the first three segments of
\* the share path (the empty one before the leading separator, 'mnt' and
\* 'data-portal') when the path has the portal marker, and what follows the
\* first, empty segment otherwise; the clone reads the snapshot's name and
\* writes 'volume-<volume.id>', both under /mnt/pdfs followed by the
\* normalized segments
C17_PathNormalization ==
    \A r \in Requests :
        ListingReturned(r) =>
            LET segments == Split(SharePath(r), "/")
                share == frame[r].share
            IN /\ IF HasPortalMarker(SharePath(r))
                  THEN segments = <<<<>>, <<"mnt">>, <<"data-portal">>>> \o share
                  ELSE segments = <<<<>>>> \o share
               /\ \A i \in 1..Len(calls[r]) :
                     calls[r][i].op = "clone" =>
                         calls[r][i].args =
                             <<FileUnder(share, snapshot[r].name),
                               FileUnder(share, <<"volume-", volume[r].id>>)>>

\* C17 witness: a clone from a share behind the portal prefix, whose
\* normalized share is the one segment after the prefix
C17_Witness ==
    \E r \in Requests :
        /\ CloneReturned(r)
        /\ SharePath(r) = <<"/", "mnt", "/", "data-portal", "/", "share1">>
        /\ frame[r].share = <<<<"share1">>>>
        /\ frame[r].dst_path =
              <<"/", "mnt", "/", "pdfs", "/", "share1", "/", "volume-", "v1">>

\* C19 (as claimed): a run that ends in a failure leaves
\* volume.provider_location as it was before the call, which is None for
\* the new volume; only a run that returns changes it
C19_LocationChangedOnSuccessOnly ==
    \A r \in Requests :
        (pc[r] = "done" /\ result[r].kind = "raise")
        => volume[r].provider_location = None

\* C20 (as claimed): whatever the number of segments of the normalized
\* share path, once the clone and the chmod have succeeded the bind is
\* reached and called with the normalized share path as the share and
\* '/volume-<volume.id>' as the path relative to it, which is the file the
\* clone wrote
C20_BindAddressesClonedFile ==
    \A r \in Requests :
        (pc[r] = "done" /\ ChmodReturned(r)) =>
            /\ Len(BindCalls(r)) = 1
            /\ LET bind == BindCalls(r)[1]
                   share == Split(SharePath(r), "/")
                   segments == IF HasPortalMarker(SharePath(r))
                               THEN SubSeq(share, 4, Len(share))
                               ELSE SubSeq(share, 2, Len(share))
               IN /\ bind.args[1] \in {segments, PathJoin(<<>>, segments)}
                  /\ bind.args[2] = <<"/", "volume-", volume[r].id>>
                  /\ FileUnder(segments, SliceFrom(bind.args[2], 1))
                       = frame[r].dst_path

(***************************************************************************)
(* Claims about interleaved calls, checked under ConcurrentSpec            *)
(***************************************************************************)
\* The file of the new volume of request r, and its path relative to the
\* share
VolumeFile(r) ==
    SnapshotSrcPath(snapshot[r].volume.provider_location.s, volume[r].id)
RelativeVolumeFile(r) == <<"/", "volume-", volume[r].id>>

\* The call c addresses the file of the new volume of request q
Addresses(c, q) ==
    CASE c.op = "clone" -> c.args[2] = VolumeFile(q)
      [] c.op = "profile_set" -> c.args[2] = RelativeVolumeFile(q)
      [] c.op \in {"chmod", "set_rw_permissions", "qemu_img_info",
                   "resize_image"} -> c.args[1] = VolumeFile(q)
      [] OTHER -> FALSE

\* What request r observes and returns is what it observes and returns
\* when it runs alone: the cloned file first has the size of the
\* snapshot's file, after the resize of r it has that size or the size r
\* asked for, and the outcome follows from the sizes r read
OutcomeAsAlone(r) ==
    LET sizes == frame[r].virt_sizes
    IN /\ Len(sizes) <= 2
       /\ Len(sizes) >= 1 => sizes[1] = snapshot[r].volume.size
       /\ Len(sizes) = 2 =>
             /\ sizes[1] # volume[r].size
             /\ sizes[2] \in {sizes[1], volume[r].size}
       /\ (CloneReturned(r) /\ VolumeFile(r) \in DOMAIN files) =>
             files[VolumeFile(r)] \in {snapshot[r].volume.size, volume[r].size}
       /\ (pc[r] = "done" /\ result[r].kind = "return") =>
             /\ result[r] = Return([provider_location |->
                                 snapshot[r].volume.provider_location.s])
             /\ sizes # <<>>
             /\ sizes[Len(sizes)] = volume[r].size
       /\ (pc[r] = "done" /\ result[r] = Raise("InvalidResults")) =>
             /\ Len(sizes) = 2
             /\ sizes[2] # volume[r].size

\* C16: of two interleaved calls for volumes of different ids, the clone
\* destinations differ, also when both clone one snapshot on one share;
\* no call of one request addresses the other's file; and each request
\* observes and returns what it does when run alone
C16_IndependentRequests ==
    \A r, q \in ConcurrentRequests :
        r # q =>
            /\ (frame[r].dst_path # <<>> /\ frame[q].dst_path # <<>>)
               => frame[r].dst_path # frame[q].dst_path
            /\ \A i \in 1..Len(calls[r]) :
                  /\ ~Addresses(calls[r][i], q)
                  /\ calls[r][i].op \notin {"objectives_list"}
                     => Addresses(calls[r][i], r)
            /\ OutcomeAsAlone(r)

\* C16 witness: both requests cloned the same snapshot; the first resized
\* its file and the second did not have to, and both returned
C16_Witness ==
    /\ snapshot[1] = snapshot[2]
    /\ pc = [r \in ConcurrentRequests |-> "done"]
    /\ \A r \in ConcurrentRequests : result[r].kind = "return"
    /\ NumCalls(1, "resize_image") = 1
    /\ NumCalls(2, "resize_image") = 0
    /\ files[VolumeFile(1)] # files[VolumeFile(2)]

(***************************************************************************)
(* Claims about the life of a snapshot, checked under SnapshotSpec         *)
(***************************************************************************)
\* create_snapshot made the snapshot's file: its clone call, the first
\* call of the log, was followed by its chmod
SnapshotFileMade(r) ==
    /\ Len(calls[r]) >= 2
    /\ calls[r][1].op = "clone"
    /\ calls[r][2].op = "chmod"

\* C12: delete_snapshot issues the delete at most once and only right
\* after an existence probe of the same file that succeeded: none when the
\* file is absent or the probe fails, one when the probe succeeded; and it
\* returns None to its caller whether the volume lookup, the probe or the
\* delete failed or not
C12_BestEffortDelete ==
    \A r \in Requests :
        /\ NumCalls(r, "delete") <= 1
        /\ \A i \in 1..Len(calls[r]) :
              calls[r][i].op = "delete" =>
                  /\ i > 1
                  /\ calls[r][i - 1] = Call("ls", calls[r][i].args)
                  /\ calls[r][i].args = <<path(r)>>
                  /\ SnapshotFileMade(r)
        /\ ~SnapshotFileMade(r) => NumCalls(r, "delete") = 0
        /\ pc[r] = "del_rm" =>
              /\ path(r) \in DOMAIN files
              /\ LastCall(r).op = "ls"
              /\ NumCalls(r, "delete") = 0
        /\ pc[r] = "deleted" =>
              /\ result[r] = Return(None)
              /\ LastCall(r).op \in {"volume_get", "ls", "delete"}
              /\ NumCalls(r, "ls") = 1 => LastCall(r).op # "volume_get"

\* C12 witness: the probe succeeded, the one delete that followed failed
\* and left the file, and delete_snapshot returned
C12_Witness ==
    \E r \in Requests :
        /\ pc[r] = "deleted"
        /\ NumCalls(r, "delete") = 1
        /\ path(r) \in DOMAIN files
        /\ result[r] = Return(None)

\* The clone calls of request r: the first is create_snapshot's, the
\* second, when there is one, create_volume_from_snapshot's
CloneCalls(r) == SelectSeq(calls[r], LAMBDA c : c.op = "clone")

\* The directory of the file p
DirName(p) ==
    LET last == CHOOSE i \in 1..Len(p) :
                    p[i] = "/" /\ \A j \in (i + 1)..Len(p) : p[j] # "/"
    IN SubSeq(p, 1, last)

\* C18: for a plain and for a portal provider location, the file
\* create_snapshot writes is the file create_volume_from_snapshot reads as
\* its clone source; create_snapshot reads 'volume-<id>' of the source
\* volume in the directory it writes to; and the file the workflow writes
\* for the new volume is where create_snapshot would read it, given the
\* provider location the workflow gave the volume
C18_SnapshotAndCloneAgree ==
    \A r \in Requests :
        /\ Len(CloneCalls(r)) <= 2
        /\ Len(CloneCalls(r)) >= 1 =>
              LET made == CloneCalls(r)[1]
              IN /\ made.args[1] =
                       DirName(made.args[2]) \o <<"volume-", snapshot[r].volume.id>>
                 /\ made.args[2] =
                       DirName(made.args[2]) \o snapshot[r].name
        /\ Len(CloneCalls(r)) = 2 =>
              LET made == CloneCalls(r)[1]
                  used == CloneCalls(r)[2]
              IN /\ used.args[1] = made.args[2]
                 /\ DirName(used.args[2]) = DirName(made.args[2])
                 /\ used.args[2] =
                       SnapshotSrcPath(volume[r].provider_location.s,
                                       volume[r].id)
                 /\ used.args[2] =
                       DirName(made.args[2]) \o <<"volume-", volume[r].id>>

\* C18 witness: a snapshot of a volume behind the portal prefix was made,
\* and a volume was cloned from the file create_snapshot wrote
C18_Witness ==
    \E r \in Requests :
        /\ Len(CloneCalls(r)) = 2
        /\ HasPortalMarker(SharePath(r))
        /\ CloneCalls(r)[2].args[1] = CloneCalls(r)[1].args[2]
        /\ CloneCalls(r)[2].args[2] \in DOMAIN files
        /\ pc[r] = "done"
        /\ result[r].kind = "return"

====
